---- MODULE Spec2Model ----
(***************************************************************************)
(* A model of the headscale k8s operator's workload core:                  *)
(*   - CertHandler (certificates.py): change-detecting certificate sync    *)
(*     and removal,                                                        *)
(*   - Headscale.render_config / _check_policy (headscale.py): the policy  *)
(*     gate in front of the config write and the restart,                  *)
(*   - Headscale.create_backup / restore_backup (headscale.py),             *)
(*   - Headscale._run_cmd, dictify, _create_admin_user and create_authkey  *)
(*     (headscale.py): the command runner and the commands built on it,    *)
(*   - HeadscaleConfig.__post_init__ (headscale.py): validation,           *)
(*   - HeadscaleCharm (charm.py): the event handlers and the unit status.  *)
(* Each component has its own specification over the shared variables.     *)
(***************************************************************************)
EXTENDS Integers, Sequences, FiniteSets, TLC

VARIABLES
    \* ---- CertHandler: files in the workload and the last two calls ----
    certFile,     \* /etc/headscale/headscale.pem : Absent or Some(text)
    keyFile,      \* /etc/headscale/headscale.key : Absent or Some(text)
    certLast,     \* what the most recent CertHandler call got and did
    certPrev,     \* summary of the CertHandler call before that one
    \* ---- Headscale.render_config: files in the workload, the service ----
    policyFile,   \* /etc/headscale/policy.hujson : Absent or Some(text)
    configFile,   \* /etc/headscale/config.yaml : Absent or Some(document)
    restarts,     \* restarts of headscale-server requested so far
    renderLast,   \* what the most recent render_config got and did
    \* ---- Headscale.create_backup / restore_backup ----
    running,      \* headscale-server is running under Pebble
    db,           \* /var/lib/headscale/db.sqlite (workload)
    key,          \* /var/lib/headscale/noise_private.key (workload)
    stDb,         \* /tmp/db.sqlite (workload), "none" when missing
    stKey,        \* /tmp/noise_private.key (workload), "none" when missing
    stTar,        \* /tmp/backup.tar.gz (workload), NoArchive when missing
    files,        \* archives on the charm side: BACKUP_PATH and the upload path
    clock,        \* datetime.now(), in seconds
    op,           \* the call in progress or last made: "none", "create", "restore"
    pc,           \* the statement about to run, "done" between calls
    cbAt,         \* position in create_backup, 0 outside it
    rbAt,         \* position in restore_backup, 0 outside it
    rbPath,       \* restore_backup's argument
    tmp,          \* the TemporaryDirectory restore_backup extracts into
    backup,       \* create_backup's return value (restore_backup's local)
    ret,          \* what the last call returned, NoPath if it raised
    raised,       \* the last call ended with an exception
    log,          \* the statements of the call that ran to their end, in order
    failedStep,   \* the first statement of the call that failed, "none" if
                  \* none, "no_archive" if it failed for the lack of its input
    made,         \* the last archive a create_backup call returned, and the
                  \* live data it was made from
    ops,          \* calls made so far
    \* ---- Headscale._run_cmd and the commands built on it ----
    cmdLast,      \* what the most recent command-running call got and did
    \* ---- HeadscaleConfig construction ----
    built,        \* what the most recent HeadscaleConfig(...) got and did
    \* ---- HeadscaleCharm (charm.py) ----
    status,       \* self.unit.status
    charmConfig,  \* /etc/headscale/config.yaml as charm.py pushes it
    charmRestarts,\* container.restart calls so far
    replans,      \* container.replan calls so far
    submitted,    \* submit_to_traefik calls so far
    handler,      \* the handler running or last run, "none" before the first
    hpc,          \* the statement of the handler about to run, "idle" between
    polls,        \* is_ready calls made by wait_for_ready in this handler
    charmLast     \* what the handler running or last run got and did

certVars == <<certFile, keyFile, certLast, certPrev>>

renderVars == <<policyFile, configFile, restarts, renderLast>>

backupVars == <<running, db, key, stDb, stKey, stTar, files, clock, op, pc,
                cbAt, rbAt, rbPath, tmp, backup, ret, raised, log, failedStep,
                made, ops>>

cmdVars == <<cmdLast>>

configVars == <<built>>

charmVars == <<status, charmConfig, charmRestarts, replans, submitted, handler,
               hpc, polls, charmLast>>

vars == <<certFile, keyFile, certLast, certPrev,
          policyFile, configFile, restarts, renderLast,
          running, db, key, stDb, stKey, stTar, files, clock, op, pc,
          cbAt, rbAt, rbPath, tmp, backup, ret, raised, log, failedStep,
          made, ops, cmdLast, built,
          status, charmConfig, charmRestarts, replans, submitted, handler,
          hpc, polls, charmLast>>

----------------------------------------------------------------------------
(* Optional values: Python's None is Absent, a value x is Some(x).         *)
Absent == << >>
Some(x) == <<x>>

(* Texts are sequences of characters.                                      *)
Whitespace == {" ", "\n"}

----------------------------------------------------------------------------
(* Bounds                                                                  *)
MaxChain == 2     \* longest certificate chain the provider assigns
MaxRestarts == 2  \* restarts of the service followed by the model
MaxClock == 1     \* seconds the clock advances
MaxOps == 3       \* backup and restore calls followed by the model
MaxExit == 2      \* largest exit code a command ends with
MaxTagsLen == 3   \* longest tags string handed to create_authkey
MaxReplans == 2   \* replans of the Pebble plan followed by the model
MaxSubmits == 2   \* submissions to traefik followed by the model

(* The certificates and private keys the provider can assign.  The         *)
(* library hands them out already parsed, i.e. stripped.                   *)
CertTexts == { <<"A">>, <<"B">> }
KeyTexts  == { <<"k">>, <<"m">> }

RECURSIVE SeqsUpTo(_, _)
SeqsUpTo(S, n) ==
    IF n = 0 THEN { << >> }
    ELSE LET shorter == SeqsUpTo(S, n - 1)
         IN  shorter \cup { Append(s, x) : s \in { t \in shorter : Len(t) = n - 1 }, x \in S }

\* A chain is the leaf followed by its issuers: non-empty, no certificate twice.
Chains ==
    { c \in SeqsUpTo(CertTexts, MaxChain) :
        /\ c # << >>
        /\ \A i, j \in 1..Len(c) : c[i] = c[j] => i = j }

----------------------------------------------------------------------------
(* certificates.py                                                         *)

CERT_PATH == "/etc/headscale/headscale.pem"
KEY_PATH  == "/etc/headscale/headscale.key"

\* str.strip(): drop leading and trailing whitespace
RECURSIVE StripLeft(_)
StripLeft(t) ==
    IF t # << >> /\ Head(t) \in Whitespace THEN StripLeft(Tail(t)) ELSE t

RECURSIVE StripRight(_)
StripRight(t) ==
    IF t # << >> /\ t[Len(t)] \in Whitespace
    THEN StripRight(SubSeq(t, 1, Len(t) - 1))
    ELSE t

\* PrivateKey.from_string(key_string): the parsed pkey is the stripped text
PrivateKeyFromString(t) == StripRight(StripLeft(t))

\* str(private_key)
PrivateKeyToString(k) == k

\* _concat_chain: "\n".join([str(c) for c in certs])
RECURSIVE ConcatChain(_)
ConcatChain(certs) ==
    IF certs = << >> THEN << >>
    ELSE IF Len(certs) = 1 THEN certs[1]
    ELSE certs[1] \o <<"\n">> \o ConcatChain(Tail(certs))

\* _certificate_is_available: bool(cert and pkey)
\* (variant: only the certificate is looked at)
CertificateIsAvailableKeyIgnored(cert, pkey) == cert # Absent

CertificateIsAvailable(cert, pkey) == cert # Absent /\ pkey # Absent

\* _get_existing_certificate: the stored text if the file exists, else None
GetExistingCertificate(cf) == cf

\* _get_existing_private_key: the parsed stored pkey if the file exists, else None
GetExistingPrivateKey(kf) ==
    IF kf = Absent THEN Absent ELSE Some(PrivateKeyFromString(kf[1]))

\* _is_certificate_update_required
\* (variant: the comparison never finds the stored text equal)
IsCertificateUpdateRequiredAlways(cf, chain) == TRUE

IsCertificateUpdateRequired(cf, chain) ==
    GetExistingCertificate(cf) # Some(ConcatChain(chain))

\* _is_private_key_update_required
IsPrivateKeyUpdateRequired(kf, pkey) ==
    GetExistingPrivateKey(kf) # Some(pkey)

\* _store_certificate: the file content after the push
StoreCertificate(chain) == Some(ConcatChain(chain))

\* _store_private_key: the file content after the push
StorePrivateKey(pkey) == Some(PrivateKeyToString(pkey))

\* (variant: the returned flag forgets the private pkey)
CheckAndUpdateCertificateCertFlagOnly(cf, kf, cert, pkey) ==
    IF cert = Absent \/ pkey = Absent
    THEN [certFile |-> cf, keyFile |-> kf,
          certPushed |-> FALSE, keyPushed |-> FALSE, changed |-> FALSE]
    ELSE LET certificate_update_required == IsCertificateUpdateRequired(cf, cert[1])
             private_key_update_required == IsPrivateKeyUpdateRequired(kf, pkey[1])
         IN  [certFile   |-> IF certificate_update_required
                             THEN StoreCertificate(cert[1]) ELSE cf,
              keyFile    |-> IF private_key_update_required
                             THEN StorePrivateKey(pkey[1]) ELSE kf,
              certPushed |-> certificate_update_required,
              keyPushed  |-> private_key_update_required,
              changed    |-> certificate_update_required]

\* _check_and_update_certificate, cert = Absent or Some(chain), pkey likewise
CheckAndUpdateCertificate(cf, kf, cert, pkey) ==
    IF cert = Absent \/ pkey = Absent
    THEN [certFile |-> cf, keyFile |-> kf,
          certPushed |-> FALSE, keyPushed |-> FALSE, changed |-> FALSE]
    ELSE LET certificate_update_required == IsCertificateUpdateRequired(cf, cert[1])
             private_key_update_required == IsPrivateKeyUpdateRequired(kf, pkey[1])
         IN  [certFile   |-> IF certificate_update_required
                             THEN StoreCertificate(cert[1]) ELSE cf,
              keyFile    |-> IF private_key_update_required
                             THEN StorePrivateKey(pkey[1]) ELSE kf,
              certPushed |-> certificate_update_required,
              keyPushed  |-> private_key_update_required,
              changed    |-> certificate_update_required \/ private_key_update_required]

\* _remove_certificate / _remove_private_key: container.exec(["rm", path]).
\* The process is started and never waited for, so its exit code (1 when the
\* file is missing) is never turned into an ExecError.
\* (variant: the exit code is waited for and raised)
RemoveFileWaiting(f) ==
    [file |-> Absent, exit |-> IF f = Absent THEN 1 ELSE 0, raised |-> f = Absent]

RemoveFile(f) ==
    [file |-> Absent, exit |-> IF f = Absent THEN 1 ELSE 0, raised |-> FALSE]

NoCertCall ==
    [op |-> "none", conn |-> FALSE, rel |-> FALSE, cert |-> Absent, key |-> Absent,
     oldCert |-> Absent, oldKey |-> Absent,
     ret |-> FALSE, synced |-> FALSE, changed |-> FALSE,
     certPushed |-> FALSE, keyPushed |-> FALSE,
     rmRequested |-> {}, raised |-> FALSE]

CertSummary(c) == [op |-> c.op, ret |-> c.ret, cert |-> c.cert, key |-> c.key]

\* configure_certs with the environment it observes: can_connect(), whether the
\* "certificates" relation exists, and the assigned certificate and pkey.
ConfigureCerts(conn, rel, cert, pkey) ==
    LET ready == conn /\ rel /\ CertificateIsAvailable(cert, pkey)
        sync  == CheckAndUpdateCertificate(certFile, keyFile, cert, pkey)
    IN  /\ certFile' = IF ready THEN sync.certFile ELSE certFile
        /\ keyFile'  = IF ready THEN sync.keyFile ELSE keyFile
        /\ certLast' = [NoCertCall EXCEPT
                          !.op = "configure", !.conn = conn, !.rel = rel,
                          !.cert = cert, !.key = pkey,
                          !.oldCert = certFile, !.oldKey = keyFile,
                          !.ret = ready, !.synced = ready,
                          !.changed = ready /\ sync.changed,
                          !.certPushed = ready /\ sync.certPushed,
                          !.keyPushed = ready /\ sync.keyPushed]
        /\ certPrev' = CertSummary(certLast)

\* remove_certs: _remove_certificate() then _remove_private_key()
RemoveCerts ==
    LET rc == RemoveFile(certFile)
        rk == RemoveFile(keyFile)
    IN  /\ certFile' = rc.file
        /\ keyFile'  = IF rc.raised THEN keyFile ELSE rk.file
        /\ certLast' = [NoCertCall EXCEPT
                          !.op = "remove",
                          !.oldCert = certFile, !.oldKey = keyFile,
                          !.rmRequested = IF rc.raised THEN {CERT_PATH}
                                          ELSE {CERT_PATH, KEY_PATH},
                          !.raised = rc.raised \/ rk.raised]
        /\ certPrev' = CertSummary(certLast)

----------------------------------------------------------------------------
(* headscale.py: HeadscaleConfig and Headscale.render_config               *)

POLICY_PATH == "/etc/headscale/policy.hujson"
CONFIG_PATH == "/etc/headscale/config.yaml"

\* __post_init__: the log levels a constructed HeadscaleConfig can carry
LogLevels == {"info", "debug", "critical", "warning"}

\* the policy texts a charm config can carry: unset, empty, or a document
PolicyTexts == {"", "acl-1", "acl-2"}
MagicDnsValues == {"", "example.com"}
Names == {"headscale"}

\* the HeadscaleConfig values that pass __post_init__ (no OIDC field set)
HeadscaleConfigs ==
    [ name      : Names,
      log_level : LogLevels,
      policy    : {Absent} \cup { Some(t) : t \in PolicyTexts },
      magic_dns : MagicDnsValues ]

\* Python truthiness of an Optional[str] (variant: only None is false)
TruthyNotNone(opt) == opt # Absent

Truthy(opt) == opt # Absent /\ opt[1] # ""

\* HeadscaleConfig.dns
Dns(cfg) ==
    IF cfg.magic_dns = ""
    THEN [magic_dns |-> FALSE, base_domain |-> "", override_local_dns |-> FALSE]
    ELSE [magic_dns |-> TRUE, base_domain |-> cfg.magic_dns, override_local_dns |-> FALSE]

\* HeadscaleConfig.tls
Tls(enabled, name) ==
    IF enabled
    THEN [tls_cert_path |-> CERT_PATH, tls_key_path |-> KEY_PATH,
          server_url |-> <<"https", name, 443>>, listen_port |-> 443]
    ELSE [tls_cert_path |-> "", tls_key_path |-> "",
          server_url |-> <<"http", name, 80>>, listen_port |-> 80]

\* HeadscaleConfig.log
Log(cfg) == [level |-> cfg.log_level]

\* HeadscaleConfig.get_policy
GetPolicy(cfg) ==
    IF cfg.policy # Absent
    THEN [mode |-> "file", path |-> POLICY_PATH]
    ELSE [mode |-> "database", path |-> ""]

\* Headscale._generate_config (the static part is the same in every document)
GenerateConfig(cfg, tls, name) ==
    [dns |-> Dns(cfg), policy |-> GetPolicy(cfg), tls |-> Tls(tls, name), log |-> Log(cfg)]

\* exc.wait() in _check_policy: a nonzero exit of hujsonfmt is an ExecError,
\* which _check_policy turns into ValueError("Policy file incorrect")
\* (variant: the exit code of the checker is not looked at)
PolicyCheckRaisesNever(exit) == FALSE

PolicyCheckRaises(exit) == exit # 0

\* Headscale._check_policy on the policy file pf; exit is hujsonfmt's exit code
CheckPolicy(cfg, pf, exit) ==
    IF Truthy(cfg.policy)
    THEN [policyFile |-> cfg.policy, pushed |-> TRUE, checked |-> TRUE,
          exit |-> exit, raised |-> PolicyCheckRaises(exit)]
    ELSE [policyFile |-> pf, pushed |-> FALSE, checked |-> FALSE,
          exit |-> 0, raised |-> FALSE]

NoRender ==
    [ran |-> FALSE, cfg |-> Absent, tls |-> FALSE,
     policyPushed |-> FALSE, checked |-> FALSE, exit |-> 0,
     raised |-> "none", configPushed |-> FALSE, restarted |-> FALSE,
     oldConfig |-> Absent, oldPolicy |-> Absent]

\* Headscale.render_config for a Headscale built on cfg, with self.tls = tls
RenderConfig(cfg, tls, exit) ==
    LET chk == CheckPolicy(cfg, policyFile, exit)
    IN  /\ restarts < MaxRestarts
        /\ policyFile' = chk.policyFile
        /\ configFile' = IF chk.raised THEN configFile
                         ELSE Some(GenerateConfig(cfg, tls, cfg.name))
        /\ restarts' = IF chk.raised THEN restarts ELSE restarts + 1
        /\ renderLast' = [NoRender EXCEPT
                            !.ran = TRUE, !.cfg = Some(cfg), !.tls = tls,
                            !.policyPushed = chk.pushed, !.checked = chk.checked,
                            !.exit = chk.exit,
                            !.raised = IF chk.raised THEN "ValueError" ELSE "none",
                            !.configPushed = ~chk.raised,
                            !.restarted = ~chk.raised,
                            !.oldConfig = configFile, !.oldPolicy = policyFile]

RenderInit ==
    /\ policyFile = Absent
    /\ configFile = Absent
    /\ restarts = 0
    /\ renderLast = NoRender

RenderConfigCall ==
    \E cfg \in HeadscaleConfigs, tls \in BOOLEAN, exit \in {0, 1} :
        RenderConfig(cfg, tls, exit)

RenderNext ==
    \/ RenderConfigCall /\ UNCHANGED <<certVars, backupVars, cmdVars, configVars, charmVars>>

----------------------------------------------------------------------------
(* headscale.py: Headscale.create_backup and Headscale.restore_backup      *)

DbContents  == {"d0", "d1"}
KeyContents == {"k0", "k1"}

Archives  == [db : DbContents, key : KeyContents]
NoArchive == [db |-> "none", key |-> "none"]
\* the archives an operator brings back: made earlier from other data
UploadArchives == { [db |-> "d1", key |-> "k1"], [db |-> "d0", key |-> "k1"] }

\* BACKUP_PATH / "backup.tar.gz", BACKUP_PATH / "headscale-backup-<ts>.tar.gz",
\* and a path outside BACKUP_PATH where an operator has put an archive
RawPath       == <<"backup.tar.gz", 0>>
Stamped(ts)   == <<"headscale-backup", ts>>
UploadPath    == <<"upload", 0>>
NoPath        == <<"none", 0>>
ExportPaths   == {RawPath} \cup { Stamped(ts) : ts \in 0..MaxClock }
Paths         == ExportPaths \cup {UploadPath}

Exported == { p \in ExportPaths : files[p] # NoArchive }

\* the statements of create_backup, in program order
\* (variant: the export directory is not cleared)
CreatePlanNoClean == <<"rsync", "cp", "tar", "pull", "rename">>

CreatePlan == <<"rsync", "cp", "tar", "clean", "pull", "rename">>

\* the statements of restore_backup, in program order
\* (variant: the service is stopped between the two pushes)
RestorePlanStopLate ==
    <<"backup", "extract", "push_db", "stop", "push_key", "start", "unlink">>

\* (variant: the service is stopped before the safety backup is taken)
RestorePlanStopFirst ==
    <<"stop", "backup", "extract", "push_db", "push_key", "start", "unlink">>

RestorePlan ==
    <<"backup", "stop", "extract", "push_db", "push_key", "start", "unlink">>

Done == [pc |-> "done", cbAt |-> 0, rbAt |-> 0]

\* no create_backup has returned an archive that the next call could restore
NoneMade == [path |-> NoPath, db |-> "none", key |-> "none"]

\* where restore_backup stands when it reaches its statement number rb
RestorePos(rb) ==
    IF rb > Len(RestorePlan) THEN Done
    ELSE IF RestorePlan[rb] = "backup"
         THEN [pc |-> CreatePlan[1], cbAt |-> 1, rbAt |-> rb]
         ELSE [pc |-> RestorePlan[rb], cbAt |-> 0, rbAt |-> rb]

\* where the call stands after the current statement
NextPos ==
    IF cbAt > 0 /\ cbAt < Len(CreatePlan)
    THEN [pc |-> CreatePlan[cbAt + 1], cbAt |-> cbAt + 1, rbAt |-> rbAt]
    ELSE IF op = "create" THEN Done
    ELSE RestorePos(rbAt + 1)

\* the ExecError branch of _run_cmd turns a nonzero exit into exit_code, and
\* create_backup raises on it only where it reads ret.exit_code: the result of
\* the cp of the noise key is dropped
RaisesOnNonzeroExit(step) == step \in {"rsync", "tar"}

\* the current statement ran to its end; h is create_backup's result so far.
\* The with block of restore_backup holds the extracted archive from the
\* extraction to the second push.
Proceed(step, h) ==
    /\ IF step = "extract" THEN tmp' = files[rbPath]
       ELSE IF step = "push_key" THEN tmp' = NoArchive
       ELSE tmp' = tmp
    /\ pc' = NextPos.pc
    /\ cbAt' = NextPos.cbAt
    /\ rbAt' = NextPos.rbAt
    /\ log' = Append(log, step)
    /\ backup' = h
    /\ raised' = FALSE
    /\ ret' = IF NextPos.pc = "done" THEN h ELSE ret
    /\ made' = IF NextPos.pc = "done" /\ op = "create"
               THEN [path |-> h, db |-> stDb, key |-> key]
               ELSE made

\* the current statement raised: the call ends there, and the with block of
\* restore_backup removes its TemporaryDirectory on the way out
Abort(step, outside) ==
    /\ pc' = "done"
    /\ tmp' = NoArchive
    /\ cbAt' = 0
    /\ rbAt' = 0
    /\ raised' = TRUE
    /\ ret' = NoPath
    /\ backup' = NoPath
    /\ failedStep' = IF failedStep # "none" THEN failedStep
                     ELSE IF outside THEN step ELSE "no_archive"
    /\ UNCHANGED <<log, made>>

Begin(name, path, pos) ==
    /\ pc = "done"
    /\ ops < MaxOps
    /\ ops' = ops + 1
    /\ op' = name
    /\ rbPath' = path
    /\ pc' = pos.pc
    /\ cbAt' = pos.cbAt
    /\ rbAt' = pos.rbAt
    /\ log' = << >>
    /\ raised' = FALSE
    /\ ret' = NoPath
    /\ backup' = NoPath
    /\ tmp' = NoArchive
    /\ failedStep' = "none"
    /\ made' = IF name = "restore" /\ path = made.path THEN made ELSE NoneMade
    /\ UNCHANGED <<running, db, key, stDb, stKey, stTar, files, clock>>

\* a call of create_backup()
BeginCreate == Begin("create", NoPath, [pc |-> CreatePlan[1], cbAt |-> 1, rbAt |-> 0])

\* a call of restore_backup(backup_path)
BeginRestore == \E p \in Paths : Begin("restore", p, RestorePos(1))

\* sqlite3_rsync SQLITE_PATH /tmp/db.sqlite; raise if exit_code != 0
CbRsync(ok) ==
    /\ pc = "rsync"
    /\ IF ok
       THEN /\ stDb' = db
            /\ Proceed("rsync", backup)
            /\ UNCHANGED failedStep
       ELSE /\ RaisesOnNonzeroExit("rsync")
            /\ Abort("rsync", TRUE)
            /\ UNCHANGED stDb
    /\ UNCHANGED <<running, db, key, stKey, stTar, files, clock, op, rbPath, ops>>

\* cp NOISE_KEY /tmp/ ; the CmdResult is not looked at
CbCp(ok) ==
    /\ pc = "cp"
    /\ IF ok
       THEN /\ stKey' = key
            /\ Proceed("cp", backup)
            /\ UNCHANGED failedStep
       ELSE IF RaisesOnNonzeroExit("cp")
       THEN /\ Abort("cp", TRUE)
            /\ UNCHANGED stKey
       ELSE /\ UNCHANGED stKey
            /\ Proceed("cp", backup)
            /\ failedStep' = IF failedStep = "none" THEN "cp" ELSE failedStep
    /\ UNCHANGED <<running, db, key, stDb, stTar, files, clock, op, rbPath, ops>>

\* tar -czf /tmp/backup.tar.gz -C /tmp/ db.sqlite noise_private.key; raise if
\* exit_code != 0. tar exits nonzero when a member is missing.
CbTar(ok) ==
    /\ pc = "tar"
    /\ IF ok /\ stDb # "none" /\ stKey # "none"
       THEN /\ stTar' = [db |-> stDb, key |-> stKey]
            /\ Proceed("tar", backup)
            /\ UNCHANGED failedStep
       ELSE /\ RaisesOnNonzeroExit("tar")
            /\ Abort("tar", ~ok)
            /\ UNCHANGED stTar
    /\ UNCHANGED <<running, db, key, stDb, stKey, files, clock, op, rbPath, ops>>

\* BACKUP_PATH.mkdir(exist_ok=True); for f in BACKUP_PATH.iterdir(): f.unlink()
CbClean(ok) ==
    /\ pc = "clean"
    /\ IF ok
       THEN /\ files' = [p \in Paths |-> IF p \in ExportPaths THEN NoArchive ELSE files[p]]
            /\ Proceed("clean", backup)
            /\ UNCHANGED failedStep
       ELSE /\ Abort("clean", TRUE)
            /\ UNCHANGED files
    /\ UNCHANGED <<running, db, key, stDb, stKey, stTar, clock, op, rbPath, ops>>

\* container.pull_path('/tmp/backup.tar.gz', BACKUP_PATH)
CbPull(ok) ==
    /\ pc = "pull"
    /\ IF ok /\ stTar # NoArchive
       THEN /\ files' = [files EXCEPT ![RawPath] = stTar]
            /\ Proceed("pull", backup)
            /\ UNCHANGED failedStep
       ELSE /\ Abort("pull", ~ok)
            /\ UNCHANGED files
    /\ UNCHANGED <<running, db, key, stDb, stKey, stTar, clock, op, rbPath, ops>>

\* ts = now(); (BACKUP_PATH / "backup.tar.gz").rename(headscale-backup-<ts>);
\* return backup_file
CbRename(ok) ==
    /\ pc = "rename"
    /\ IF ok /\ files[RawPath] # NoArchive
       THEN /\ files' = [files EXCEPT ![Stamped(clock)] = files[RawPath],
                                      ![RawPath] = NoArchive]
            /\ Proceed("rename", Stamped(clock))
            /\ UNCHANGED failedStep
       ELSE /\ Abort("rename", ~ok)
            /\ UNCHANGED files
    /\ UNCHANGED <<running, db, key, stDb, stKey, stTar, clock, op, rbPath, ops>>

\* container.stop(pebble_service_name)
RbStop(ok) ==
    /\ pc = "stop"
    /\ IF ok
       THEN /\ running' = FALSE
            /\ Proceed("stop", backup)
            /\ UNCHANGED failedStep
       ELSE /\ Abort("stop", TRUE)
            /\ UNCHANGED running
    /\ UNCHANGED <<db, key, stDb, stKey, stTar, files, clock, op, rbPath, ops>>

\* TarFile.open(backup_tar_path).extractall(d): FileNotFoundError when the
\* archive is not there
RbExtract(ok) ==
    /\ pc = "extract"
    /\ IF ok /\ files[rbPath] # NoArchive
       THEN /\ Proceed("extract", backup)
            /\ UNCHANGED failedStep
       ELSE /\ Abort("extract", ~ok)
    /\ UNCHANGED <<running, db, key, stDb, stKey, stTar, files, clock, op, rbPath, ops>>

\* container.push_path(d / "db.sqlite", dirname(SQLITE_PATH))
RbPushDb(ok) ==
    /\ pc = "push_db"
    /\ IF ok /\ tmp # NoArchive
       THEN /\ db' = tmp.db
            /\ Proceed("push_db", backup)
            /\ UNCHANGED failedStep
       ELSE /\ Abort("push_db", ~ok)
            /\ UNCHANGED db
    /\ UNCHANGED <<running, key, stDb, stKey, stTar, files, clock, op, rbPath, ops>>

\* container.push_path(d / "noise_private.key", dirname(NOISE_KEY))
RbPushKey(ok) ==
    /\ pc = "push_key"
    /\ IF ok /\ tmp # NoArchive
       THEN /\ key' = tmp.key
            /\ Proceed("push_key", backup)
            /\ UNCHANGED failedStep
       ELSE /\ Abort("push_key", ~ok)
            /\ UNCHANGED key
    /\ UNCHANGED <<running, db, stDb, stKey, stTar, files, clock, op, rbPath, ops>>

\* container.start(pebble_service_name)
RbStart(ok) ==
    /\ pc = "start"
    /\ IF ok
       THEN /\ running' = TRUE
            /\ Proceed("start", backup)
            /\ UNCHANGED failedStep
       ELSE /\ Abort("start", TRUE)
            /\ UNCHANGED running
    /\ UNCHANGED <<db, key, stDb, stKey, stTar, files, clock, op, rbPath, ops>>

\* backup_tar_path.unlink(); return backup
RbUnlink(ok) ==
    /\ pc = "unlink"
    /\ IF ok /\ files[rbPath] # NoArchive
       THEN /\ files' = [files EXCEPT ![rbPath] = NoArchive]
            /\ Proceed("unlink", backup)
            /\ UNCHANGED failedStep
       ELSE /\ Abort("unlink", ~ok)
            /\ UNCHANGED files
    /\ UNCHANGED <<running, db, key, stDb, stKey, stTar, clock, op, rbPath, ops>>

\* datetime.now() moves on by a second
Tick ==
    /\ clock < MaxClock
    /\ clock' = clock + 1
    /\ UNCHANGED <<running, db, key, stDb, stKey, stTar, files, op, pc, cbAt, rbAt,
                   rbPath, tmp, backup, ret, raised, log, failedStep, made, ops>>

\* the running headscale server writes to its database
WorkloadWrites ==
    /\ running
    /\ \E d \in DbContents \ {db} : db' = d
    /\ UNCHANGED <<running, key, stDb, stKey, stTar, files, clock, op, pc, cbAt, rbAt,
                   rbPath, tmp, backup, ret, raised, log, failedStep, made, ops>>

\* an operator puts an archive at a path outside BACKUP_PATH to restore it
Upload ==
    /\ pc = "done"
    /\ files[UploadPath] = NoArchive
    /\ \E a \in UploadArchives : files' = [files EXCEPT ![UploadPath] = a]
    /\ UNCHANGED <<running, db, key, stDb, stKey, stTar, clock, op, pc, cbAt, rbAt,
                   rbPath, tmp, backup, ret, raised, log, failedStep, made, ops>>

BackupInit ==
    /\ running = TRUE
    /\ db = "d0"
    /\ key = "k0"
    /\ stDb = "none"
    /\ stKey = "none"
    /\ stTar = NoArchive
    /\ files = [p \in Paths |-> NoArchive]
    /\ clock = 0
    /\ op = "none"
    /\ pc = "done"
    /\ cbAt = 0
    /\ rbAt = 0
    /\ rbPath = NoPath
    /\ tmp = NoArchive
    /\ backup = NoPath
    /\ ret = NoPath
    /\ raised = FALSE
    /\ log = << >>
    /\ failedStep = "none"
    /\ made = NoneMade
    /\ ops = 0

BackupNext ==
    \/ BeginCreate /\ UNCHANGED <<certVars, renderVars, cmdVars, configVars, charmVars>>
    \/ BeginRestore /\ UNCHANGED <<certVars, renderVars, cmdVars, configVars, charmVars>>
    \/ \E ok \in BOOLEAN : CbRsync(ok) /\ UNCHANGED <<certVars, renderVars, cmdVars, configVars, charmVars>>
    \/ \E ok \in BOOLEAN : CbCp(ok) /\ UNCHANGED <<certVars, renderVars, cmdVars, configVars, charmVars>>
    \/ \E ok \in BOOLEAN : CbTar(ok) /\ UNCHANGED <<certVars, renderVars, cmdVars, configVars, charmVars>>
    \/ \E ok \in BOOLEAN : CbClean(ok) /\ UNCHANGED <<certVars, renderVars, cmdVars, configVars, charmVars>>
    \/ \E ok \in BOOLEAN : CbPull(ok) /\ UNCHANGED <<certVars, renderVars, cmdVars, configVars, charmVars>>
    \/ \E ok \in BOOLEAN : CbRename(ok) /\ UNCHANGED <<certVars, renderVars, cmdVars, configVars, charmVars>>
    \/ \E ok \in BOOLEAN : RbStop(ok) /\ UNCHANGED <<certVars, renderVars, cmdVars, configVars, charmVars>>
    \/ \E ok \in BOOLEAN : RbExtract(ok) /\ UNCHANGED <<certVars, renderVars, cmdVars, configVars, charmVars>>
    \/ \E ok \in BOOLEAN : RbPushDb(ok) /\ UNCHANGED <<certVars, renderVars, cmdVars, configVars, charmVars>>
    \/ \E ok \in BOOLEAN : RbPushKey(ok) /\ UNCHANGED <<certVars, renderVars, cmdVars, configVars, charmVars>>
    \/ \E ok \in BOOLEAN : RbStart(ok) /\ UNCHANGED <<certVars, renderVars, cmdVars, configVars, charmVars>>
    \/ \E ok \in BOOLEAN : RbUnlink(ok) /\ UNCHANGED <<certVars, renderVars, cmdVars, configVars, charmVars>>
    \/ Tick /\ UNCHANGED <<certVars, renderVars, cmdVars, configVars, charmVars>>
    \/ WorkloadWrites /\ UNCHANGED <<certVars, renderVars, cmdVars, configVars, charmVars>>
    \/ Upload /\ UNCHANGED <<certVars, renderVars, cmdVars, configVars, charmVars>>

CertInit ==
    /\ certFile = Absent
    /\ keyFile = Absent
    /\ certLast = NoCertCall
    /\ certPrev = CertSummary(NoCertCall)

ConfigureCertsCall ==
    \E conn \in BOOLEAN, rel \in BOOLEAN :
      \E cert \in {Absent} \cup { Some(c) : c \in Chains } :
        \E pkey \in {Absent} \cup { Some(k) : k \in KeyTexts } :
          ConfigureCerts(conn, rel, cert, pkey)

CertNext ==
    \/ ConfigureCertsCall /\ UNCHANGED <<renderVars, backupVars, cmdVars, configVars, charmVars>>
    \/ RemoveCerts /\ UNCHANGED <<renderVars, backupVars, cmdVars, configVars, charmVars>>

----------------------------------------------------------------------------
(* headscale.py: dictify, Headscale._run_cmd and _run_headscale_cmd        *)
(* No call of the command runner depends on an earlier one: the model      *)
(* follows one call from the state in which none was made.                 *)

\* A parsed YAML value is its kind and its items.  An item is a pair
\* <<key, value>>: an entry of a mapping, or an element of a sequence, which
\* is a scalar (key "") or a mapping with the one entry key: value.
YamlNull == [kind |-> "null", items |-> << >>]
YamlScalar(s) == [kind |-> "scalar", items |-> << <<"", s>> >>]
YamlMapping(entries) == [kind |-> "mapping", items |-> entries]
YamlSequence(elements) == [kind |-> "sequence", items |-> elements]
YamlError == [kind |-> "YAMLError", items |-> << >>]

ADMIN == "charm-admin"

\* what a command can write to its stdout: nothing, a word, documents that
\* are a mapping or a sequence, and a document that does not parse
StdoutTexts ==
    { "", "done", "name: charm-admin", "{}", "[]",
      "- name: charm-admin", "- name: bob", "- name: bob\n- name: charm-admin",
      "- bob", "- id: 1", "users: [bob" }

StderrTexts == { "", "failed" }

\* yaml.safe_load: the value of the document, or yaml.YAMLError
SafeLoad(text) ==
    CASE text = ""                    -> YamlNull
      [] text = "done"                -> YamlScalar("done")
      [] text = "name: charm-admin"   -> YamlMapping(<< <<"name", ADMIN>> >>)
      [] text = "{}"                  -> YamlMapping(<< >>)
      [] text = "[]"                  -> YamlSequence(<< >>)
      [] text = "- name: charm-admin" -> YamlSequence(<< <<"name", ADMIN>> >>)
      [] text = "- name: bob"         -> YamlSequence(<< <<"name", "bob">> >>)
      [] text = "- name: bob\n- name: charm-admin"
                                      -> YamlSequence(<< <<"name", "bob">>, <<"name", ADMIN>> >>)
      [] text = "- bob"               -> YamlSequence(<< <<"", "bob">> >>)
      [] text = "- id: 1"             -> YamlSequence(<< <<"id", "1">> >>)
      [] OTHER                        -> YamlError

\* isinstance(d, dict) or isinstance(d, list)
IsDictOrList(d) == d.kind = "mapping" \/ d.kind = "sequence"

\* the last statement of dictify (variant: the parsed value is returned as
\* it is, whatever its type)
WrapUnstructuredNever(d, out) == d

WrapUnstructured(d, out) ==
    IF ~IsDictOrList(d) THEN YamlMapping(<< <<"out", out>> >>) ELSE d

\* dictify: d starts as "" and keeps it when safe_load raises YAMLError
Dictify(out) ==
    LET loaded == SafeLoad(out)
        d == IF loaded = YamlError THEN YamlScalar("") ELSE loaded
    IN  WrapUnstructured(d, out)

CmdResult(stderr, stdout, exit_code) ==
    [stderr |-> stderr, stdout |-> stdout, exit_code |-> exit_code]

NoResult == CmdResult("", YamlNull, 0)

\* the exit codes a command can end with
ExitCodes == 0 .. MaxExit

\* what the process started by container.exec does: its output and exit code
Outcomes == [out : StdoutTexts, err : StderrTexts, exit : ExitCodes]

\* exc.wait_output(): ExecError carrying both streams on a nonzero exit
WaitOutput(o) ==
    [raises |-> o.exit # 0, stdout |-> o.out, stderr |-> o.err, exit_code |-> o.exit]

\* the except clause of _run_cmd (variant: ExecError is not caught)
OnExecErrorUncaught(e) == [raised |-> "ExecError", result |-> NoResult]

OnExecError(e) ==
    [raised |-> "none",
     result |-> CmdResult(e.stderr, Dictify(e.stdout), e.exit_code)]

\* Headscale._run_cmd once container.exec(command) has started the process
RunCmd(command, o) ==
    LET w == WaitOutput(o)
        r == IF w.raises THEN OnExecError(w)
             ELSE [raised |-> "none",
                   result |-> CmdResult(w.stderr, Dictify(w.stdout), 0)]
    IN  [exec |-> [command |-> command, out |-> o.out, err |-> o.err, exit |-> o.exit],
         raised |-> r.raised, result |-> r.result]

\* A command is a sequence of arguments, an argument a sequence of tokens.
Arg(w) == <<w>>

HS_BIN == "/usr/bin/headscale"

\* Headscale._run_headscale_cmd
RunHeadscaleCmd(command, o) ==
    RunCmd(<<Arg(HS_BIN), Arg("--output"), Arg("yaml")>> \o command, o)

----------------------------------------------------------------------------
(* headscale.py: Headscale._create_admin_user and Headscale.create_authkey *)

\* u["name"] for one u of the iteration over ret.stdout: iterating a mapping
\* yields its keys, which are strings; indexing a string with "name" is a
\* TypeError, a mapping without that key a KeyError
NameLookup(stdout, item) ==
    IF stdout.kind = "mapping" THEN "TypeError"
    ELSE IF item[1] = "name" THEN "none"
    ELSE IF item[1] = "" THEN "TypeError"
    ELSE "KeyError"

\* [u["name"] for u in ret.stdout]: the names, or the first exception
UserNames(stdout) ==
    LET n == Len(stdout.items)
        failing == { i \in 1..n : NameLookup(stdout, stdout.items[i]) # "none" }
        first == CHOOSE i \in failing : \A j \in failing : i <= j
    IN  IF failing = {}
        THEN [raised |-> "none", names |-> { stdout.items[i][2] : i \in 1..n }]
        ELSE [raised |-> NameLookup(stdout, stdout.items[first]), names |-> {}]

NoArgs == [tags |-> << >>, expiry |-> "", reusable |-> FALSE, ephemeral |-> FALSE]

NoCmdCall ==
    [op |-> "none", args |-> NoArgs, execs |-> << >>, result |-> NoResult,
     raised |-> "none"]

UserList == <<Arg("user"), Arg("list")>>
UserCreate == <<Arg("user"), Arg("create"), Arg(ADMIN)>>

\* Headscale._create_admin_user; listing and creating are what the two
\* commands do when they are run
CreateAdminUser(listing, creating) ==
    LET listed == RunHeadscaleCmd(UserList, listing)
        users == UserNames(listed.result.stdout)
        created == RunHeadscaleCmd(UserCreate, creating)
        call == [NoCmdCall EXCEPT !.op = "create_admin_user"]
    IN  cmdLast' =
          IF listed.raised # "none"
          THEN [call EXCEPT !.execs = <<listed.exec>>, !.raised = listed.raised]
          ELSE IF listed.result.exit_code # 0
          THEN [call EXCEPT !.execs = <<listed.exec>>, !.result = listed.result,
                            !.raised = "Exception"]
          ELSE IF users.raised # "none"
          THEN [call EXCEPT !.execs = <<listed.exec>>, !.result = listed.result,
                            !.raised = users.raised]
          ELSE IF ADMIN \notin users.names
          THEN [call EXCEPT !.execs = <<listed.exec, created.exec>>,
                            !.result = created.result,
                            !.raised = IF created.raised # "none" THEN created.raised
                                       ELSE IF created.result.exit_code # 0
                                       THEN "Exception" ELSE "none"]
          ELSE [call EXCEPT !.execs = <<listed.exec>>, !.result = listed.result]

\* the characters of a tags string, and the tags strings of an action call
TagChars == {"a", "b", ","}
TagTexts == SeqsUpTo(TagChars, MaxTagsLen)
Expirations == {"1h", "90d"}

\* str.split(sep) on a text: the parts between the separators, in order
RECURSIVE Split(_, _)
Split(text, sep) ==
    IF text = << >> THEN << << >> >>
    ELSE LET rest == Split(Tail(text), sep)
         IN  IF Head(text) = sep
             THEN << << >> >> \o rest
             ELSE << <<Head(text)>> \o Head(rest) >> \o Tail(rest)

\* sep.join(parts)
RECURSIVE Join(_, _)
Join(parts, sep) ==
    IF Len(parts) = 0 THEN << >>
    ELSE IF Len(parts) = 1 THEN parts[1]
    ELSE parts[1] \o sep \o Join(Tail(parts), sep)

\* "tag:" + ",tag:".join(tags.split(","))  (variant: only the text as a
\* whole is prefixed)
TagsArgumentWhole(tags) == <<"tag:">> \o tags

TagsArgument(tags) == <<"tag:">> \o Join(Split(tags, ","), <<",", "tag:">>)

\* the command create_authkey builds
CreateAuthkeyCmd(tags, expiry, reusable, ephemeral) ==
    <<Arg("preauthkey"), Arg("create")>>
      \o <<Arg("--tags"), TagsArgument(tags)>>
      \o <<Arg("--expiration"), Arg(expiry)>>
      \o (IF reusable THEN <<Arg("--reusable")>> ELSE << >>)
      \o (IF ephemeral THEN <<Arg("--ephemeral")>> ELSE << >>)
      \o <<Arg("-u"), Arg("1")>>

\* Headscale.create_authkey
CreateAuthkey(tags, expiry, reusable, ephemeral, o) ==
    LET r == RunHeadscaleCmd(CreateAuthkeyCmd(tags, expiry, reusable, ephemeral), o)
    IN  cmdLast' = [NoCmdCall EXCEPT
                      !.op = "create_authkey",
                      !.args = [tags |-> tags, expiry |-> expiry,
                                reusable |-> reusable, ephemeral |-> ephemeral],
                      !.execs = <<r.exec>>, !.result = r.result,
                      !.raised = r.raised]

\* the commands create_backup hands to _run_cmd directly
PlainCommands ==
    { <<Arg("sqlite3_rsync"), Arg("/var/lib/headscale/db.sqlite"), Arg("/tmp/db.sqlite")>>,
      <<Arg("cp"), Arg("/var/lib/headscale/noise_private.key"), Arg("/tmp/")>> }

\* a call of Headscale._run_cmd
RunCmdCall ==
    /\ cmdLast.op = "none"
    /\ \E command \in PlainCommands, o \in Outcomes :
        LET r == RunCmd(command, o)
        IN  cmdLast' = [NoCmdCall EXCEPT !.op = "run_cmd", !.execs = <<r.exec>>,
                                         !.result = r.result, !.raised = r.raised]

CreateAdminUserCall ==
    /\ cmdLast.op = "none"
    /\ \E listing \in Outcomes, creating \in Outcomes :
        CreateAdminUser(listing, creating)

CreateAuthkeyCall ==
    /\ cmdLast.op = "none"
    /\ \E tags \in TagTexts, expiry \in Expirations, reusable \in BOOLEAN,
       ephemeral \in BOOLEAN, o \in Outcomes :
        CreateAuthkey(tags, expiry, reusable, ephemeral, o)

CmdInit == cmdLast = NoCmdCall

CmdNext ==
    \/ RunCmdCall /\ UNCHANGED <<certVars, renderVars, backupVars, configVars, charmVars>>
    \/ CreateAdminUserCall /\ UNCHANGED <<certVars, renderVars, backupVars, configVars, charmVars>>
    \/ CreateAuthkeyCall /\ UNCHANGED <<certVars, renderVars, backupVars, configVars, charmVars>>

----------------------------------------------------------------------------
(* headscale.py: HeadscaleConfig.__post_init__                             *)

\* what the charm can hand to the constructor: a level __post_init__ knows
\* or one it does not
GivenLogLevels == LogLevels \cup {"trace"}

\* an Optional[str] is None, the empty string or a text; an
\* Optional[List[str]] is None, the empty list or a list; an
\* Optional[ops.Secret] is None or a secret
OptStr(v) == {Absent, Some(""), Some(v)}
OptList(v) == {Absent, Some(<< >>), Some(<<v>>)}

ConstructorArgs ==
    [ log_level      : GivenLogLevels,
      oidc_issuer    : OptStr("https://idp"),
      oidc_client_id : OptStr("headscale"),
      oidc_secret    : {Absent, Some("secret:1")},
      oidc_expiry    : OptStr("30d"),
      oidc_scope     : OptList("openid"),
      oidc_groups    : OptList("admins") ]

OidcFields ==
    {"oidc_issuer", "oidc_client_id", "oidc_secret", "oidc_expiry",
     "oidc_scope", "oidc_groups"}

\* bool(x) for the value of a field: None, "" and [] are false
FieldTruthy(a, f) ==
    /\ a[f] # Absent
    /\ IF f \in {"oidc_scope", "oidc_groups"} THEN a[f][1] # << >>
       ELSE IF f = "oidc_secret" THEN TRUE
       ELSE a[f][1] # ""

\* any(oidc_configs)
AnyOidc(a) == \E f \in OidcFields : FieldTruthy(a, f)

\* all([self.oidc_issuer, self.oidc_secret, self.oidc_client_id])
\* (variant: only the issuer is asked for)
MinimumOidcIssuerOnly(a) == FieldTruthy(a, "oidc_issuer")

MinimumOidc(a) ==
    \A f \in {"oidc_issuer", "oidc_secret", "oidc_client_id"} : FieldTruthy(a, f)

\* HeadscaleConfig.__post_init__
PostInit(a) ==
    IF a.log_level \notin LogLevels
    THEN [raised |-> "ValueError", reason |-> "log_level", warned |-> FALSE]
    ELSE IF AnyOidc(a) /\ ~MinimumOidc(a)
    THEN [raised |-> "ValueError", reason |-> "oidc", warned |-> FALSE]
    ELSE [raised |-> "none", reason |-> "",
          warned |-> /\ AnyOidc(a)
                     /\ FieldTruthy(a, "oidc_groups")
                     /\ ~FieldTruthy(a, "oidc_scope")]

NotBuilt ==
    [ran |-> FALSE, args |-> Absent, raised |-> "none", reason |-> "",
     warned |-> FALSE]

\* HeadscaleConfig(...): the value is frozen, it is constructed once
Construct(a) ==
    LET r == PostInit(a)
    IN  built' = [ran |-> TRUE, args |-> Some(a), raised |-> r.raised,
                  reason |-> r.reason, warned |-> r.warned]

ConstructCall == ~built.ran /\ \E a \in ConstructorArgs : Construct(a)

ConfigInit == built = NotBuilt

ConfigNext ==
    \/ ConstructCall /\ UNCHANGED <<certVars, renderVars, backupVars, cmdVars, charmVars>>

----------------------------------------------------------------------------
(* charm.py: HeadscaleConfig and HeadscaleCharm                            *)
(* The handlers are followed statement by statement.  What a handler finds *)
(* outside the charm (the configured port, leadership, the ingress         *)
(* relation, Pebble) is fixed when it starts: a hook sees one snapshot.    *)
(* The annotation of _on_ingress_ready (charm.py:115) names a class the     *)
(* module does not import; the model takes the module as loaded, as it is  *)
(* where annotations are evaluated lazily.                                 *)

SSH_PORT == 22
DEFAULT_PORT == 8080
PollLimit == 10

Ports == {SSH_PORT, DEFAULT_PORT}

Environments ==
    [port : Ports, leader : BOOLEAN, ingressReady : BOOLEAN, reachable : BOOLEAN]

\* charm.py HeadscaleConfig.__post_init__, reached through load_config
LoadConfig(env) ==
    IF env.port = SSH_PORT
    THEN [raised |-> "ValueError", port |-> env.port]
    ELSE [raised |-> "none", port |-> env.port]

\* charm.py HeadscaleConfig.generate_config: the first entry of the document
\* reads the name external_url, which no scope of the method defines
CharmGenerateConfig(config) ==
    [raised |-> "NameError", doc |-> Absent]

NoHandler ==
    [env |-> [port |-> DEFAULT_PORT, leader |-> FALSE, ingressReady |-> FALSE,
              reachable |-> FALSE],
     statusBefore |-> "Unknown", configBefore |-> Absent, restartsBefore |-> 0,
     replansBefore |-> 0, invalid |-> FALSE, raised |-> "none",
     lastReady |-> FALSE, submitted |-> "none"]

\* the statements of each handler, in the order the handler runs them
HandlerPlan(h) ==
    CASE h = "config_changed" -> <<"render", "ingress", "update">>
      [] h = "pebble_ready"   -> <<"start", "render", "update", "wait", "active">>
      [] h = "ingress_ready"  -> <<"ingress">>

\* the statement after step in handler h, "idle" after the last
After(h, step) ==
    LET plan == HandlerPlan(h)
        i == CHOOSE k \in 1..Len(plan) : plan[k] = step
    IN  IF i = Len(plan) THEN "idle" ELSE plan[i + 1]

\* the framework calls a handler
BeginHandler(h, env) ==
    /\ hpc = "idle"
    /\ charmRestarts < MaxRestarts
    /\ replans < MaxReplans
    /\ submitted < MaxSubmits
    /\ handler' = h
    /\ hpc' = HandlerPlan(h)[1]
    /\ polls' = 0
    /\ charmLast' = [NoHandler EXCEPT
                       !.env = env, !.statusBefore = status,
                       !.configBefore = charmConfig,
                       !.restartsBefore = charmRestarts,
                       !.replansBefore = replans]
    /\ UNCHANGED <<status, charmConfig, charmRestarts, replans, submitted>>

\* _on_pebble_ready, its first statement
StartWorkload ==
    /\ hpc = "start"
    /\ status' = "Maintenance"
    /\ hpc' = After(handler, "start")
    /\ UNCHANGED <<charmConfig, charmRestarts, replans, submitted, handler, polls,
                   charmLast>>

\* HeadscaleCharm._render_config
CharmRenderConfig ==
    /\ hpc = "render"
    /\ LET loaded == LoadConfig(charmLast.env)
           doc == CharmGenerateConfig(loaded)
       IN  IF loaded.raised = "ValueError"
           THEN /\ status' = "Blocked"
                /\ hpc' = After(handler, "render")
                /\ charmLast' = [charmLast EXCEPT !.invalid = TRUE]
                /\ UNCHANGED <<charmConfig, charmRestarts>>
           ELSE IF doc.raised # "none"
           THEN /\ hpc' = "idle"
                /\ charmLast' = [charmLast EXCEPT !.raised = doc.raised]
                /\ UNCHANGED <<status, charmConfig, charmRestarts>>
           ELSE /\ charmConfig' = doc.doc
                /\ charmRestarts' = charmRestarts + 1
                /\ hpc' = After(handler, "render")
                /\ UNCHANGED <<status, charmLast>>
    /\ UNCHANGED <<replans, submitted, handler, polls>>

\* HeadscaleCharm._ingress_config: the routing document, or None after a
\* configuration error
IngressConfig(env) ==
    LET loaded == LoadConfig(env)
    IN  IF loaded.raised = "ValueError"
        THEN [blocked |-> TRUE, config |-> "None"]
        ELSE [blocked |-> FALSE, config |-> "routers"]

\* the two tests of _setup_ingress: the unit is the leader and the ingress
\* relation is ready (variant: leadership is not asked for)
MaySubmitAnyUnit(env) == env.ingressReady

MaySubmit(env) == env.leader /\ env.ingressReady

\* HeadscaleCharm._setup_ingress
SetupIngress ==
    /\ hpc = "ingress"
    /\ LET env == charmLast.env
           ing == IngressConfig(env)
       IN  IF ~MaySubmit(env)
           THEN UNCHANGED <<status, submitted, charmLast>>
           ELSE /\ status' = IF ing.blocked THEN "Blocked" ELSE status
                /\ submitted' = submitted + 1
                /\ charmLast' = [charmLast EXCEPT
                                   !.invalid = charmLast.invalid \/ ing.blocked,
                                   !.submitted = ing.config]
    /\ hpc' = After(handler, "ingress")
    /\ UNCHANGED <<charmConfig, charmRestarts, replans, handler, polls>>

\* HeadscaleCharm._update_layer_and_restart
UpdateLayerAndRestart ==
    /\ hpc = "update"
    /\ IF charmLast.env.reachable
       THEN /\ replans' = replans + 1
            /\ status' = "Active"
       ELSE /\ replans' = replans
            /\ status' = "Maintenance"
    /\ hpc' = After(handler, "update")
    /\ UNCHANGED <<charmConfig, charmRestarts, submitted, handler, polls, charmLast>>

\* what is_ready finds: the services of the container and its ready checks
Snapshots == [running : BOOLEAN, checksUp : BOOLEAN]

\* HeadscaleCharm.is_ready
IsReady(snap) == IF ~snap.running THEN FALSE ELSE snap.checksUp

\* range(10) is used up (variant: the loop runs once more)
PollsExhaustedLate(n) == n = PollLimit + 1

PollsExhausted(n) == n = PollLimit

\* wait_for_ready, one turn of its loop: is_ready, then return or sleep
Poll ==
    /\ hpc = "wait"
    /\ ~PollsExhausted(polls)
    /\ \E snap \in Snapshots :
         /\ polls' = polls + 1
         /\ charmLast' = [charmLast EXCEPT !.lastReady = IsReady(snap)]
         /\ hpc' = IF IsReady(snap) THEN After(handler, "wait") ELSE "wait"
    /\ UNCHANGED <<status, charmConfig, charmRestarts, replans, submitted, handler>>

\* wait_for_ready, after its loop: RuntimeError("workload is not ready")
GiveUp ==
    /\ hpc = "wait"
    /\ PollsExhausted(polls)
    /\ hpc' = "idle"
    /\ charmLast' = [charmLast EXCEPT !.raised = "RuntimeError"]
    /\ UNCHANGED <<status, charmConfig, charmRestarts, replans, submitted, handler,
                   polls>>

\* _on_pebble_ready, its last statement
SetActive ==
    /\ hpc = "active"
    /\ status' = "Active"
    /\ hpc' = After(handler, "active")
    /\ UNCHANGED <<charmConfig, charmRestarts, replans, submitted, handler, polls,
                   charmLast>>

CharmInit ==
    /\ status = "Unknown"
    /\ charmConfig = Absent
    /\ charmRestarts = 0
    /\ replans = 0
    /\ submitted = 0
    /\ handler = "none"
    /\ hpc = "idle"
    /\ polls = 0
    /\ charmLast = NoHandler

OnConfigChanged == \E env \in Environments : BeginHandler("config_changed", env)
OnPebbleReady == \E env \in Environments : BeginHandler("pebble_ready", env)
OnIngressReady == \E env \in Environments : BeginHandler("ingress_ready", env)

CharmNext ==
    \/ OnConfigChanged /\ UNCHANGED <<certVars, renderVars, backupVars, cmdVars, configVars>>
    \/ OnPebbleReady /\ UNCHANGED <<certVars, renderVars, backupVars, cmdVars, configVars>>
    \/ OnIngressReady /\ UNCHANGED <<certVars, renderVars, backupVars, cmdVars, configVars>>
    \/ StartWorkload /\ UNCHANGED <<certVars, renderVars, backupVars, cmdVars, configVars>>
    \/ CharmRenderConfig /\ UNCHANGED <<certVars, renderVars, backupVars, cmdVars, configVars>>
    \/ SetupIngress /\ UNCHANGED <<certVars, renderVars, backupVars, cmdVars, configVars>>
    \/ UpdateLayerAndRestart /\ UNCHANGED <<certVars, renderVars, backupVars, cmdVars, configVars>>
    \/ Poll /\ UNCHANGED <<certVars, renderVars, backupVars, cmdVars, configVars>>
    \/ GiveUp /\ UNCHANGED <<certVars, renderVars, backupVars, cmdVars, configVars>>
    \/ SetActive /\ UNCHANGED <<certVars, renderVars, backupVars, cmdVars, configVars>>

----------------------------------------------------------------------------
Init ==
    /\ CertInit /\ RenderInit /\ BackupInit
    /\ CmdInit /\ ConfigInit /\ CharmInit

SpecCert == Init /\ [][CertNext]_vars

SpecRender == Init /\ [][RenderNext]_vars

SpecBackup == Init /\ [][BackupNext]_vars

SpecCmd == Init /\ [][CmdNext]_vars

SpecConfig == Init /\ [][ConfigNext]_vars

SpecCharm == Init /\ [][CharmNext]_vars

----------------------------------------------------------------------------
(* Claims about CertHandler, checked under SpecCert                        *)

SameAssignmentTwice ==
    /\ certLast.op = "configure" /\ certLast.synced
    /\ certPrev.op = "configure" /\ certPrev.ret
    /\ certPrev.cert = certLast.cert
    /\ certPrev.key = certLast.key

C8_SyncWritesOnlyWhatDiffers ==
    (certLast.op = "configure" /\ certLast.synced) =>
        LET chain == certLast.cert[1]
            pkey  == certLast.key[1]
        IN  /\ certLast.certPushed <=>
                 (certLast.oldCert = Absent \/ certLast.oldCert[1] # ConcatChain(chain))
            /\ certLast.keyPushed <=>
                 (certLast.oldKey = Absent
                    \/ PrivateKeyFromString(certLast.oldKey[1]) # pkey)
            /\ certFile = IF certLast.certPushed
                          THEN Some(ConcatChain(chain)) ELSE certLast.oldCert
            /\ keyFile = IF certLast.keyPushed THEN Some(pkey) ELSE certLast.oldKey
            /\ certLast.changed <=> (certLast.certPushed \/ certLast.keyPushed)

\* only the key differs: the key is pushed, the certificate file is left alone
C8_Witness ==
    /\ certLast.op = "configure" /\ certLast.synced
    /\ certLast.oldCert # Absent /\ certLast.oldKey # Absent
    /\ ~certLast.certPushed
    /\ certLast.keyPushed
    /\ certLast.changed
    /\ certFile = certLast.oldCert
    /\ keyFile # certLast.oldKey

NotReadyForCerts ==
    /\ certLast.op = "configure"
    /\ \/ ~certLast.conn
       \/ ~certLast.rel
       \/ certLast.cert = Absent
       \/ certLast.key = Absent

\* C9: with the container unreachable, or no certificates relation, or no
\* assigned certificate and key pair, configure_certs returns false, raises
\* nothing and writes neither file.
C9_NotReadyWritesNothing ==
    NotReadyForCerts =>
        /\ ~certLast.ret
        /\ ~certLast.raised
        /\ ~certLast.certPushed /\ ~certLast.keyPushed
        /\ certFile = certLast.oldCert
        /\ keyFile = certLast.oldKey

\* a certificate is assigned without its key, over files of an earlier sync
C9_Witness ==
    /\ certLast.op = "configure"
    /\ certLast.conn /\ certLast.rel
    /\ certLast.cert # Absent /\ certLast.key = Absent
    /\ certFile # Absent /\ keyFile # Absent
    /\ ~certLast.ret

\* C10: remove_certs requests the deletion of both files whether or not they
\* exist, raises nothing, and leaves both files absent: a second call in a row
\* finds and leaves the state the first call left.
C10_RemoveBothIdempotent ==
    (certLast.op = "remove") =>
        /\ certLast.rmRequested = {CERT_PATH, KEY_PATH}
        /\ ~certLast.raised
        /\ certFile = Absent /\ keyFile = Absent
        /\ (certPrev.op = "remove" =>
              certLast.oldCert = Absent /\ certLast.oldKey = Absent)

\* remove_certs called again when both files are already gone
C10_Witness ==
    /\ certLast.op = "remove"
    /\ certPrev.op = "remove"
    /\ certLast.oldCert = Absent /\ certLast.oldKey = Absent
    /\ certFile = Absent /\ keyFile = Absent


----------------------------------------------------------------------------
(* Claims about render_config, checked under SpecRender                    *)

\* C1: when the configured policy is present and hujsonfmt exits nonzero,
\* render_config fails with the policy error, and config.yaml is not pushed
\* and the service is not restarted in that call.
C1_InvalidPolicyBlocksConfigAndRestart ==
    (renderLast.ran /\ Truthy(renderLast.cfg[1].policy) /\ renderLast.exit # 0) =>
        /\ renderLast.raised = "ValueError"
        /\ ~renderLast.configPushed
        /\ ~renderLast.restarted
        /\ configFile = renderLast.oldConfig

\* a failed check after an earlier render had written a different document
C1_Witness ==
    /\ renderLast.ran /\ renderLast.checked /\ renderLast.exit # 0
    /\ renderLast.raised = "ValueError"
    /\ configFile # Absent
    /\ configFile # Some(GenerateConfig(renderLast.cfg[1], renderLast.tls,
                                         renderLast.cfg[1].name))
    /\ restarts = 1

----------------------------------------------------------------------------
(* Claims about create_backup and restore_backup, checked under SpecBackup *)

Ran(e) == \E i \in 1..Len(log) : log[i] = e
RanBefore(i, e) == \E j \in 1..(i - 1) : log[j] = e
IsPrefix(a, b) == Len(a) <= Len(b) /\ SubSeq(b, 1, Len(a)) = a

\* C2: in restore_backup the service is stopped before the database or the
\* noise key is overwritten, and started again only after both are written.
C2_StoppedWhileOverwriting ==
    /\ pc \in {"push_db", "push_key"} => ~running
    /\ \A i \in 1..Len(log) :
         /\ log[i] \in {"push_db", "push_key"} =>
               RanBefore(i, "stop") /\ ~RanBefore(i, "start")
         /\ log[i] = "start" =>
               RanBefore(i, "push_db") /\ RanBefore(i, "push_key")

\* a restore that ran to its end and replaced the noise key
C2_Witness ==
    /\ op = "restore" /\ pc = "done" /\ ~raised
    /\ Ran("stop") /\ Ran("push_db") /\ Ran("push_key") /\ Ran("start")
    /\ running
    /\ key = "k1"

\* C3: create_backup followed by restore_backup of the archive it returned
\* leaves the live database and noise key as they were when the backup was
\* made, whatever happened to the live data in between (in the calls where no
\* step fails for an outside reason).
C3_BackupRestoreRoundTrip ==
    [][ ( /\ op = "restore" /\ pc # "done" /\ pc' = "done"
          /\ rbPath = made.path
          /\ failedStep' \in {"none", "no_archive"} )
        => ( db' = made.db /\ key' = made.key ) ]_vars

\* the statements of restore_backup with those of its create_backup, in the
\* order the claim gives
RestoreOrder ==
    <<"rsync", "cp", "tar", "clean", "pull", "rename",
      "stop", "extract", "push_db", "push_key", "start", "unlink">>

\* C4: restore_backup takes a fresh backup, stops the service, extracts the
\* archive, overwrites database and noise key, starts the service and deletes
\* the input archive, in this order; it returns the handle of the fresh
\* backup; when the fresh backup raises, nothing after it has run.
C4_RestoreOrder ==
    (op = "restore") =>
        /\ IsPrefix(log, RestoreOrder)
        /\ (pc = "done" /\ ~raised) =>
              /\ log = RestoreOrder
              /\ ret = backup
              /\ \E ts \in 0..MaxClock : ret = Stamped(ts)
              /\ (ret # rbPath => files[ret] = stTar)
        /\ (pc = "done" /\ raised /\ ~Ran("rename")) =>
              /\ ~Ran("stop") /\ ~Ran("push_db") /\ ~Ran("push_key")
              /\ ret = NoPath

\* a restore of an uploaded archive that ran to its end
C4_Witness ==
    /\ op = "restore" /\ pc = "done" /\ ~raised
    /\ rbPath = UploadPath
    /\ log = RestoreOrder
    /\ files[UploadPath] = NoArchive
    /\ ret = Stamped(clock)
    /\ files[ret] # NoArchive

CreateOrder == <<"rsync", "cp", "tar", "clean", "pull", "rename">>

StepsAfter(step) ==
    { CreateOrder[j] : j \in { k \in 1..Len(CreateOrder) :
                                 \E i \in 1..(k - 1) : CreateOrder[i] = step } }

\* C5: when a step of create_backup fails, create_backup raises and none of
\* its later steps runs.
C5_EveryStepHardFails ==
    (failedStep \in { CreateOrder[i] : i \in 1..Len(CreateOrder) }) =>
        /\ \A e \in StepsAfter(failedStep) : ~Ran(e)
        /\ (pc = "done" => raised)

\* C6: when create_backup has run to its end, the export directory holds
\* exactly one archive, the one this call produced.
C6_SingleArchiveRetained ==
    (log # << >> /\ log[Len(log)] = "rename" /\ (pc = "done" => ~raised)) =>
        /\ Exported = {backup}
        /\ files[backup] = stTar

\* the create_backup inside a restore has returned, a second after an earlier
\* create_backup returned the archive headscale-backup-0: only the new one is left
C6_Witness ==
    /\ op = "restore" /\ pc = "stop"
    /\ log # << >> /\ log[Len(log)] = "rename"
    /\ made.path = Stamped(0)
    /\ backup = Stamped(1)
    /\ Exported = {Stamped(1)}

----------------------------------------------------------------------------
(* Claims about the command runner, checked under SpecCmd                  *)

Structured == {"mapping", "sequence"}

\* C11: a command that was started never makes _run_cmd raise because of
\* its exit code: the call returns a CmdResult whose exit_code is the exit
\* code of the command (0 for 0, n for a nonzero n), whose stdout is the
\* normalized stdout of that command and whose stderr is its stderr.
C11_RunCmdReturnsOnAnyExit ==
    cmdLast.op \in {"run_cmd", "create_authkey"} =>
        LET e == cmdLast.execs[1]
        IN  /\ cmdLast.raised = "none"
            /\ cmdLast.result.exit_code = e.exit
            /\ cmdLast.result.stderr = e.err
            /\ cmdLast.result.stdout = Dictify(e.out)

C11_Witness ==
    /\ cmdLast.op = "run_cmd"
    /\ cmdLast.execs[1].exit = 2
    /\ cmdLast.execs[1].out = "- name: bob"
    /\ cmdLast.execs[1].err = "failed"
    /\ cmdLast.raised = "none"
    /\ cmdLast.result =
         CmdResult("failed", YamlSequence(<< <<"name", "bob">> >>), 2)

\* C12: dictify returns a mapping or a sequence for every stdout text: the
\* parsed value when the text parses to a mapping or a sequence, and the
\* mapping {out: the text} for every other text (empty, a bare scalar, a
\* document that does not parse).
C12_DictifyAlwaysStructured ==
    cmdLast.op = "run_cmd" =>
        LET out == cmdLast.execs[1].out
            parsed == SafeLoad(out)
            got == cmdLast.result.stdout
        IN  /\ got.kind \in Structured
            /\ parsed.kind \in Structured => got = parsed
            /\ parsed.kind \notin Structured =>
                   got = YamlMapping(<< <<"out", out>> >>)

C12_Witness ==
    /\ cmdLast.op = "run_cmd"
    /\ cmdLast.execs[1].out = "users: [bob"
    /\ SafeLoad("users: [bob") = YamlError
    /\ cmdLast.result.stdout = YamlMapping(<< <<"out", "users: [bob">> >>)

\* the users a listing names: the name entries of a sequence of users
ListedUsers(stdout) ==
    IF stdout.kind = "sequence"
    THEN { stdout.items[i][2] :
             i \in { j \in 1..Len(stdout.items) : stdout.items[j][1] = "name" } }
    ELSE {}

\* C13: _create_admin_user lists the users first; it issues the create
\* command for charm-admin iff the list command succeeded and charm-admin is
\* not among the listed users; it raises the setup error when the list or the
\* create command fails, and issues no create when the list fails.
C13_AdminCreatedIffMissing ==
    cmdLast.op = "create_admin_user" =>
        LET list == cmdLast.execs[1]
            listOk == list.exit = 0
            createIssued ==
                /\ Len(cmdLast.execs) = 2
                /\ cmdLast.execs[2].command =
                     <<Arg(HS_BIN), Arg("--output"), Arg("yaml")>> \o UserCreate
        IN  /\ list.command = <<Arg(HS_BIN), Arg("--output"), Arg("yaml")>> \o UserList
            /\ createIssued <=>
                   (listOk /\ ADMIN \notin ListedUsers(Dictify(list.out)))
            /\ (~listOk \/ (createIssued /\ cmdLast.execs[2].exit # 0))
                   => cmdLast.raised = "Exception"
            /\ ~listOk => ~createIssued

\* each element of parts with "tag:" in front of it
PrefixEach(parts) == [i \in 1..Len(parts) |-> <<"tag:">> \o parts[i]]

\* C19: the command of create_authkey carries, after --tags, every
\* comma-separated tag of the input prefixed by "tag:" and joined again by
\* commas in the original order; it carries --reusable iff reusable and
\* --ephemeral iff ephemeral; its last two arguments are -u and the fixed
\* user 1.
C19_AuthkeyCommand ==
    cmdLast.op = "create_authkey" =>
        LET a == cmdLast.args
            cmd == cmdLast.execs[1].command
            n == Len(cmd)
            has(w) == \E i \in 1..n : cmd[i] = Arg(w)
        IN  /\ \E i \in 1..(n - 1) :
                  /\ cmd[i] = Arg("--tags")
                  /\ cmd[i + 1] = Join(PrefixEach(Split(a.tags, ",")), <<",">>)
            /\ has("--reusable") <=> a.reusable
            /\ has("--ephemeral") <=> a.ephemeral
            /\ cmd[n - 1] = Arg("-u")
            /\ cmd[n] = Arg("1")

C19_Witness ==
    /\ cmdLast.op = "create_authkey"
    /\ cmdLast.args.tags = <<"a", ",", "b">>
    /\ cmdLast.args.reusable
    /\ ~cmdLast.args.ephemeral
    /\ cmdLast.execs[1].command =
         << Arg(HS_BIN), Arg("--output"), Arg("yaml"), Arg("preauthkey"),
            Arg("create"), Arg("--tags"), <<"tag:", "a", ",", "tag:", "b">>,
            Arg("--expiration"), Arg(cmdLast.args.expiry), Arg("--reusable"),
            Arg("-u"), Arg("1") >>

----------------------------------------------------------------------------
(* Claims about HeadscaleConfig, checked under SpecConfig                  *)

\* the OIDC fields that are set: given a value that is not empty, which is
\* what any() and all() test
SetFields(a) == { f \in OidcFields : FieldTruthy(a, f) }

RequiredOidc == {"oidc_issuer", "oidc_client_id", "oidc_secret"}

\* C18: with a known log level, construction fails iff the set of OIDC
\* fields that are set is non-empty and does not contain all of issuer,
\* client_id and secret; groups set without scope is a warning, not a
\* failure.
C18_OidcAllOrMinimum ==
    (built.ran /\ built.args[1].log_level \in LogLevels) =>
        LET S == SetFields(built.args[1])
        IN  /\ built.raised = "ValueError" <=>
                   (S # {} /\ ~(RequiredOidc \subseteq S))
            /\ ("oidc_groups" \in S /\ "oidc_scope" \notin S
                   /\ RequiredOidc \subseteq S)
                  => (built.raised = "none" /\ built.warned)

C18_Witness ==
    /\ built.ran
    /\ built.args[1].log_level = "info"
    /\ SetFields(built.args[1]) = {"oidc_client_id", "oidc_secret", "oidc_expiry"}
    /\ built.raised = "ValueError"
    /\ built.reason = "oidc"

----------------------------------------------------------------------------
(* Claims about _check_policy, checked under SpecRender                    *)

\* C20: when the policy check fails, the text that failed it is still at the
\* policy path after render_config; when no policy text is configured (None
\* or the empty text), _check_policy pushes nothing, runs no checker and
\* does not raise.
C20_InvalidPolicyStaysStaged ==
    renderLast.ran =>
        LET policy == renderLast.cfg[1].policy
        IN  /\ renderLast.raised = "ValueError" =>
                   /\ renderLast.policyPushed
                   /\ policyFile = policy
                   /\ policy \notin {Absent, Some("")}
            /\ policy \in {Absent, Some("")} =>
                   /\ ~renderLast.policyPushed
                   /\ ~renderLast.checked
                   /\ policyFile = renderLast.oldPolicy
                   /\ renderLast.raised = "none"

C20_Witness ==
    /\ renderLast.ran
    /\ renderLast.raised = "ValueError"
    /\ renderLast.cfg[1].policy = Some("acl-2")
    /\ renderLast.oldPolicy = Some("acl-1")
    /\ policyFile = Some("acl-2")

----------------------------------------------------------------------------
(* Claims about HeadscaleCharm, checked under SpecCharm                    *)

\* the handler has run to its end or to an exception
Finished(h) == handler = h /\ hpc = "idle"

\* C14: when the config-changed handler has run and the configuration
\* failed validation in it, the unit status at the end of the handler is
\* Blocked, not Active.
C14_InvalidConfigEndsBlocked ==
    (Finished("config_changed") /\ charmLast.invalid) => status = "Blocked"

\* C15: Blocked is not terminal: a config-changed handler that starts in
\* Blocked with a valid configuration and a reachable container runs to its
\* end and leaves the unit Active.
C15_BlockedIsEscapable ==
    ( /\ Finished("config_changed")
      /\ charmLast.statusBefore = "Blocked"
      /\ charmLast.env.port # SSH_PORT
      /\ charmLast.env.reachable )
    => (charmLast.raised = "none" /\ status = "Active")

\* C16: a handler whose configuration failed validation has applied nothing
\* when it ends: the config document is the one it found, and the workload
\* was neither restarted nor replanned.
C16_InvalidConfigAppliesNothing ==
    (hpc = "idle" /\ charmLast.invalid) =>
        /\ charmConfig = charmLast.configBefore
        /\ charmRestarts = charmLast.restartsBefore
        /\ replans = charmLast.replansBefore

\* C17: wait_for_ready makes at most 10 polls: every step it takes is a poll
\* within the 10, after which it returns if that poll found the workload
\* ready and goes on waiting if not, or, with the 10 polls used up, the
\* RuntimeError; no step of it restarts or replans the workload.
C17_WaitForReadyBounded ==
    [][ hpc = "wait" =>
          /\ charmRestarts' = charmRestarts
          /\ replans' = replans
          /\ \/ /\ polls < PollLimit
                /\ polls' = polls + 1
                /\ IF charmLast'.lastReady
                   THEN hpc' = "active" /\ charmLast'.raised = "none"
                   ELSE hpc' = "wait"
             \/ /\ polls = PollLimit
                /\ polls' = polls
                /\ hpc' = "idle"
                /\ charmLast'.raised = "RuntimeError" ]_vars

C17_Witness ==
    /\ Finished("pebble_ready")
    /\ polls = PollLimit
    /\ ~charmLast.lastReady
    /\ charmLast.raised = "RuntimeError"

----------------------------------------------------------------------------
(* Further claims about render_config, checked under SpecRender            *)

\* C21: whenever render_config writes a config document whose policy
\* section has mode "file", the configured policy text was pushed to the
\* policy path and passed the syntax check earlier in that call, for every
\* policy value, the empty text included.
C21_FileModeImpliesStagedAndChecked ==
    ( /\ renderLast.ran
      /\ renderLast.configPushed
      /\ configFile[1].policy.mode = "file" )
    => /\ renderLast.policyPushed
       /\ renderLast.checked
       /\ renderLast.exit = 0
       /\ policyFile = renderLast.cfg[1].policy

----------------------------------------------------------------------------
(* Further claims about restore_backup, checked under SpecBackup           *)

\* C22: restore_backup never ends with the service left stopped: once it
\* has stopped the service, every way out of it, the failure of the
\* extraction or of a push included, has the service running again.
C22_RestoreAlwaysRestarts ==
    ( /\ op = "restore"
      /\ pc = "done"
      /\ Ran("stop")
      /\ failedStep # "start" )
    => running

----------------------------------------------------------------------------
(* Further claims about HeadscaleCharm, checked under SpecCharm            *)

\* C23: in the pebble-ready handler the status becomes Active only after
\* wait_for_ready has returned; when wait_for_ready raises, the handler ends
\* with that failure and the status is not Active.
C23_ActiveOnlyAfterReady ==
    /\ (handler = "pebble_ready" /\ hpc \in {"render", "update", "wait"})
          => status # "Active"
    /\ (Finished("pebble_ready") /\ charmLast.raised = "RuntimeError")
          => status # "Active"

\* C24: every submission to traefik is made by _setup_ingress in a handler
\* of config-changed or ingress-ready, on a unit that is the leader, with
\* the ingress relation ready; a unit that is not the leader submits
\* nothing.
C24_OnlyReadyLeaderSubmits ==
    [][ submitted' # submitted =>
          /\ hpc = "ingress"
          /\ handler \in {"config_changed", "ingress_ready"}
          /\ charmLast.env.leader
          /\ charmLast.env.ingressReady
          /\ submitted' = submitted + 1 ]_vars

C24_Witness ==
    /\ Finished("ingress_ready")
    /\ charmLast.env.leader
    /\ charmLast.env.ingressReady
    /\ charmLast.env.port = DEFAULT_PORT
    /\ charmLast.submitted = "routers"
    /\ submitted = 1

====
